---------------------------- MODULE Spec2Model ----------------------------
(***************************************************************************)
(* Task management system: the user and task operations of                *)
(* manager/user_manage.py and manager/task_manage.py over the two tables   *)
(* declared in db/database.py (init_db).                                   *)
(*                                                                         *)
(* Strings are sequences of one-character strings so that str.strip(),     *)
(* str.isdigit() and truthiness are computed, not assumed.  The columns    *)
(* created_at / updated_at are not modelled (no operation reads them).     *)
(* SQL "=" is modelled as exact equality of the stored and the given text  *)
(* (the texts used differ in letters or in leading blanks only, which no   *)
(* MySQL collation equates).  The MySQL server is taken in its default     *)
(* strict SQL mode: a value outside an ENUM column's list is rejected with *)
(* an error.  uuid.uuid4() is taken to return a value it never returned    *)
(* before.  The FOREIGN KEY and UNIQUE constraints are never reached when  *)
(* the operations run one at a time, each being preceded by a SELECT.      *)
(*                                                                         *)
(* Spec is the program as main.py runs it, one call at a time.  RaceSpec   *)
(* is two sessions that each call create_task once, statement by           *)
(* statement, on the connection get_db opens for the call.  A connection   *)
(* runs without autocommit (the aiomysql default) at InnoDB's default      *)
(* isolation level REPEATABLE READ: its SELECTs read the rows committed    *)
(* when its first SELECT ran, and its INSERT is seen by others once        *)
(* get_db commits.                                                         *)
(***************************************************************************)
EXTENDS Integers, Sequences, FiniteSets, TLC

VARIABLES users, autoInc, tasks, issued, last, conns

vars == <<users, autoInc, tasks, issued, last, conns>>

(***************************************************************************)
(* Bounds of the model.                                                    *)
(***************************************************************************)
MaxUsers == 2        \* rows the users table may hold
MaxUUID  == 2        \* distinct values uuid.uuid4() may return (tasks created)

(***************************************************************************)
(* Text helpers.                                                           *)
(***************************************************************************)
Whitespace == {" "}
Digits     == {"1"}

RECURSIVE LStrip(_)
LStrip(s) == IF s = <<>> THEN <<>>
             ELSE IF Head(s) \in Whitespace THEN LStrip(Tail(s)) ELSE s

RECURSIVE RStrip(_)
RStrip(s) == IF s = <<>> THEN <<>>
             ELSE IF s[Len(s)] \in Whitespace
                  THEN RStrip(SubSeq(s, 1, Len(s) - 1)) ELSE s

\* str.strip(): leading and trailing whitespace removed
Strip(s) == RStrip(LStrip(s))

\* str.isdigit(): at least one character and all characters digits
IsDigit(s) == Len(s) > 0 /\ \A i \in 1..Len(s) : s[i] \in Digits

\* truthiness of a str: "if name:" is taken for a non-empty string
Truthy(s) == s # <<>>

(***************************************************************************)
(* Inputs the front end can pass.                                          *)
(***************************************************************************)
UsernameInputs == { <<>>, <<"1">>, <<"a">> }
NameInputs     == { <<>>, <<" ">>, <<"a">>, <<" ", "a">> }
DescInputs     == { <<>>, <<" ">> }
StatusInputs   == { "Active", "Archive", "Done" }

FirstUserId    == 101
\* the ids the table can hold, and 0, which it never holds (and is falsy)
UserIdInputs   == {0} \cup (FirstUserId .. (FirstUserId + MaxUsers - 1))

\* A task id as typed: the canonical 36-character text of UUID number n
\* (what str(uuid.uuid4()) yields), the same UUID in another spelling that
\* uuid.UUID() also parses (here: braced), or text that is no UUID at all.
CanonicalId(n) == [form |-> "canonical", n |-> n]
UUIDTexts      == { CanonicalId(n) : n \in 1..MaxUUID }
TaskIdInputs   == UUIDTexts
                  \cup { [form |-> "braced", n |-> 1] }
                  \cup { [form |-> "invalid", n |-> 0] }

\* uuid.UUID(task_id) returns (TRUE) or raises ValueError (FALSE)
ParsesAsUUID(task_id) == task_id.form \in {"canonical", "braced"}


(***************************************************************************)
(* Error taxonomy (exception_handler.py): class name and status text.      *)
(***************************************************************************)
NotFoundStatus   == "404 Not Found"
BadRequestStatus == "400 Bad Request"

NotFoundError   == [error |-> "NotFoundError",   http |-> NotFoundStatus]
BadRequestError == [error |-> "BadRequestError", http |-> BadRequestStatus]
TaskOperationException(status) ==
    [error |-> "TaskOperationException", http |-> status]
UserCreationException(status) ==
    [error |-> "UserCreationException", http |-> status]

(***************************************************************************)
(* Tables (db/database.py, init_db).                                       *)
(*   users : rows [id, username]; id AUTO_INCREMENT from 101, PRIMARY KEY  *)
(*   tasks : rows [id, user_id, name, description, status]; id PRIMARY KEY *)
(***************************************************************************)
\* the status column declared as free text instead of an ENUM
StatusAnyText == { "Active", "Archive", "Done" }

\* status ENUM('Active', 'Archive')
StatusEnum == { "Active", "Archive" }
\* ... DEFAULT 'Active'
DefaultStatus == "Active"

NoTaskId == [form |-> "none", n |-> 0]

\* The menu choice being served: the operation and the arguments read from
\* the keyboard, how the call ended (the exception raised and its status
\* text, or "none"), the statements it sent to the server through
\* cursor.execute, and what it returned.  NoCall: the loop is at its prompt.
NoCall == [ op |-> "none", username |-> <<>>, user_id |-> 0,
            task_id |-> NoTaskId, name |-> <<>>, description |-> <<>>,
            status |-> "", error |-> "none", http |-> "", sql |-> <<>>,
            rows |-> {}, new_task |-> NoTaskId, new_user |-> 0 ]

\* the record of a call that raised exception e after sending statements q
Raised(call, e, q) == [call EXCEPT !.error = e.error, !.http = e.http, !.sql = q]

\* The sessions that call create_task side by side (RaceSpec), and the
\* state of a session's call: where it stands, its arguments and task_id,
\* the committed tasks rows its transaction reads, the row it has inserted
\* and not yet committed, and how the call ended.
Conns == {1, 2}

Closed == [ pc |-> "closed", user_id |-> 0, name |-> <<>>,
            description |-> <<>>, task_id |-> NoTaskId, snapshot |-> {},
            pending |-> {}, error |-> "none", http |-> "",
            returned |-> NoTaskId ]

Init == /\ users   = {}
        /\ autoInc = FirstUserId
        /\ tasks   = {}
        /\ issued  = {}
        /\ last    = NoCall
        /\ conns   = [c \in Conns |-> Closed]

(***************************************************************************)
(* The SELECT statements.                                                  *)
(***************************************************************************)
\* SELECT username FROM users WHERE username = %s
SelectUserByName(username) == { u \in users : u.username = username }
\* SELECT username FROM users WHERE id = %s
SelectUserById(user_id) == { u \in users : u.id = user_id }
\* SELECT id FROM tasks WHERE user_id = %s AND name = %s
SelectTaskByUserAndName(user_id, name) ==
    { t \in tasks : t.user_id = user_id /\ t.name = name }
\* SELECT * FROM tasks WHERE user_id = %s
SelectTasksByUser(user_id) == { t \in tasks : t.user_id = user_id }
\* SELECT * FROM tasks WHERE id = %s
SelectTaskById(task_id) == { t \in tasks : t.id = task_id }

(***************************************************************************)
(* create_user (manager/user_manage.py)                                    *)
(***************************************************************************)
CreateUser(username) ==
    LET call == [NoCall EXCEPT !.op = "create_user", !.username = username]
        fails(e, q) == /\ last' = Raised(call, e, q)
                       /\ UNCHANGED <<users, autoInc, tasks, issued>>
    IN  IF IsDigit(username)
          THEN fails(BadRequestError, <<>>)
        ELSE IF SelectUserByName(username) # {}
          THEN fails(UserCreationException("409 COnflict"), <<"SELECT users">>)
        ELSE /\ autoInc < FirstUserId + MaxUsers
             /\ users' = users \cup {[id |-> autoInc, username |-> username]}
             /\ autoInc' = autoInc + 1
             /\ last' = [call EXCEPT
                           !.sql = <<"SELECT users", "INSERT users",
                                     "SELECT LAST_INSERT_ID">>,
                           !.new_user = autoInc]
             /\ UNCHANGED <<tasks, issued>>

(***************************************************************************)
(* create_task (manager/task_manage.py)                                    *)
(***************************************************************************)
\* create_task without the "if not user" check
UserNeverMissing(user_id) == FALSE

\* "if not user": no users row has this id
UserMissing(user_id) == SelectUserById(user_id) = {}

\* the duplicate check without its "user_id = %s" condition
DuplicateTaskAnyUser(user_id, name) ==
    { t \in tasks : t.name = Strip(name) } # {}

\* "if existing_task": the user already owns a task with the trimmed name
DuplicateTask(user_id, name) ==
    SelectTaskByUserAndName(user_id, Strip(name)) # {}

\* INSERT INTO tasks (id, user_id, name, description) VALUES (...)
NewTaskRow(task_id, user_id, name, description) ==
    [ id |-> task_id, user_id |-> user_id, name |-> Strip(name),
      description |-> Strip(description), status |-> DefaultStatus ]

CreateTask(user_id, name, description) ==
    LET call == [NoCall EXCEPT !.op = "create_task", !.user_id = user_id,
                               !.name = name, !.description = description]
        fails(e, q) == /\ last' = Raised(call, e, q)
                       /\ UNCHANGED <<users, autoInc, tasks, issued>>
    IN  IF UserMissing(user_id)
          THEN fails(NotFoundError, <<"SELECT users">>)
        ELSE IF DuplicateTask(user_id, name)
          THEN fails(TaskOperationException("409 Conflict"),
                     <<"SELECT users", "SELECT tasks">>)
        ELSE IF ~Truthy(Strip(name))
          THEN fails(BadRequestError, <<"SELECT users", "SELECT tasks">>)
        ELSE \E task_id \in UUIDTexts \ issued :   \* str(uuid.uuid4())
             /\ tasks' = tasks \cup
                           {NewTaskRow(task_id, user_id, name, description)}
             /\ issued' = issued \cup {task_id}
             /\ last' = [call EXCEPT
                           !.sql = <<"SELECT users", "SELECT tasks",
                                     "INSERT tasks">>,
                           !.new_task = task_id]
             /\ UNCHANGED <<users, autoInc>>

(***************************************************************************)
(* list_tasks                                                              *)
(***************************************************************************)
ListTasks(user_id) ==
    LET call == [NoCall EXCEPT !.op = "list_tasks", !.user_id = user_id]
        found == SelectTasksByUser(user_id)
    IN  /\ last' =
             IF user_id = 0          \* "if not user_id"
               THEN Raised(call, NotFoundError, <<"SELECT users">>)
             ELSE IF found = {}      \* "if not tasks"
               THEN Raised(call, NotFoundError,
                           <<"SELECT users", "SELECT tasks">>)
             ELSE [call EXCEPT !.sql = <<"SELECT users", "SELECT tasks">>,
                               !.rows = found]
        /\ UNCHANGED <<users, autoInc, tasks, issued>>

(***************************************************************************)
(* get_task                                                                *)
(***************************************************************************)
GetTask(task_id) ==
    LET call == [NoCall EXCEPT !.op = "get_task", !.task_id = task_id]
        found == SelectTaskById(task_id)
    IN  /\ last' =
             IF ~ParsesAsUUID(task_id)
               THEN Raised(call, TaskOperationException("400 Bad Request"),
                           <<>>)
             ELSE IF found = {}
               THEN Raised(call, NotFoundError, <<"SELECT tasks">>)
             ELSE [call EXCEPT !.sql = <<"SELECT tasks">>, !.rows = found]
        /\ UNCHANGED <<users, autoInc, tasks, issued>>

(***************************************************************************)
(* update_task                                                             *)
(***************************************************************************)
\* update_fields built with "is not None" tests (as db/database.py does)
UpdateFieldsNotNone(name, description) == {"name", "description"}

\* update_fields: the columns the UPDATE statement sets
UpdateFields(name, description) ==
    (IF Truthy(name) THEN {"name"} ELSE {})
    \cup (IF Truthy(description) THEN {"description"} ELSE {})

\* UPDATE tasks SET <update_fields> WHERE id = %s
UpdateRows(task_id, name, description) ==
    LET fields == UpdateFields(name, description)
        set(t) == [t EXCEPT
                     !.name = IF "name" \in fields THEN name ELSE @,
                     !.description =
                        IF "description" \in fields THEN description ELSE @]
    IN  { IF t.id = task_id THEN set(t) ELSE t : t \in tasks }

UpdateTask(task_id, name, description) ==
    LET call == [NoCall EXCEPT !.op = "update_task", !.task_id = task_id,
                               !.name = name, !.description = description]
        fails(e, q) == /\ last' = Raised(call, e, q)
                       /\ UNCHANGED <<users, autoInc, tasks, issued>>
    IN  IF ~ParsesAsUUID(task_id)
          THEN fails(TaskOperationException("400 Bad Request"),
                     <<"START TRANSACTION">>)
        ELSE IF SelectTaskById(task_id) = {}
          THEN fails(NotFoundError,
                     <<"START TRANSACTION", "SELECT tasks", "ROLLBACK">>)
        ELSE IF UpdateFields(name, description) = {}
          \* "UPDATE tasks SET  WHERE id = %s" is rejected by the server;
          \* "except Exception" rolls back and the call returns normally
          THEN /\ last' = [call EXCEPT
                             !.sql = <<"START TRANSACTION", "SELECT tasks",
                                       "UPDATE tasks", "ROLLBACK">>]
               /\ UNCHANGED <<users, autoInc, tasks, issued>>
        ELSE /\ tasks' = UpdateRows(task_id, name, description)
             /\ last' = [call EXCEPT
                           !.sql = <<"START TRANSACTION", "SELECT tasks",
                                     "UPDATE tasks", "COMMIT">>]
             /\ UNCHANGED <<users, autoInc, issued>>

(***************************************************************************)
(* delete_task                                                             *)
(***************************************************************************)
\* a soft delete: the row is kept and marked 'Archive' instead of removed
DeleteRowsSoft(task_id) ==
    { IF t.id = task_id THEN [t EXCEPT !.status = "Archive"] ELSE t : t \in tasks }

\* DELETE FROM tasks WHERE id = %s
DeleteRows(task_id) == { t \in tasks : t.id # task_id }

DeleteTask(task_id) ==
    LET call == [NoCall EXCEPT !.op = "delete_task", !.task_id = task_id]
    IN  IF SelectTaskById(task_id) = {}
          THEN /\ last' = Raised(call, NotFoundError,
                                 <<"START TRANSACTION", "SELECT tasks">>)
               /\ UNCHANGED <<users, autoInc, tasks, issued>>
        ELSE /\ tasks' = DeleteRows(task_id)
             /\ last' = [call EXCEPT
                           !.sql = <<"START TRANSACTION", "SELECT tasks",
                                     "DELETE tasks", "COMMIT">>]
             /\ UNCHANGED <<users, autoInc, issued>>

(***************************************************************************)
(* change_task_status                                                      *)
(***************************************************************************)
\* the status UPDATE with its two parameters bound in the wrong order
\* (status, task_id swapped): "WHERE id = <status>" matches no row
UpdateStatusSwappedParams(task_id, status) == tasks

\* UPDATE tasks SET status = %s WHERE id = %s
UpdateStatus(task_id, status) ==
    { IF t.id = task_id THEN [t EXCEPT !.status = status] ELSE t : t \in tasks }

ChangeTaskStatus(task_id, status) ==
    LET call == [NoCall EXCEPT !.op = "change_task_status",
                               !.task_id = task_id, !.status = status]
        fails(e, q) == /\ last' = Raised(call, e, q)
                       /\ UNCHANGED <<users, autoInc, tasks, issued>>
    IN  IF ~ParsesAsUUID(task_id)
          THEN fails(TaskOperationException("400 Bad Request"),
                     <<"START TRANSACTION">>)
        ELSE IF SelectTaskById(task_id) = {}
          THEN fails(NotFoundError, <<"START TRANSACTION", "SELECT tasks">>)
        ELSE IF status \notin StatusEnum
          \* the server rejects the value for the ENUM column;
          \* "except Exception" rolls back and the call returns normally
          THEN /\ last' = [call EXCEPT
                             !.sql = <<"START TRANSACTION", "SELECT tasks",
                                       "UPDATE tasks", "ROLLBACK">>]
               /\ UNCHANGED <<users, autoInc, tasks, issued>>
        ELSE /\ tasks' = UpdateStatus(task_id, status)
             /\ last' = [call EXCEPT
                           !.sql = <<"START TRANSACTION", "SELECT tasks",
                                     "UPDATE tasks", "COMMIT">>]
             /\ UNCHANGED <<users, autoInc, issued>>

(***************************************************************************)
(* The menu loop of main.py: at the prompt one choice is read and the      *)
(* operation runs to its end; its result or error is printed and the loop  *)
(* comes back to the prompt.                                               *)
(***************************************************************************)
AtPrompt == last = NoCall

\* "while True:" comes round: the printed result is dropped
Prompt == /\ ~AtPrompt
          /\ last' = NoCall
          /\ UNCHANGED <<users, autoInc, tasks, issued>>

\* one call at a time: between two prompts no other call is under way
OneAtATime == AtPrompt /\ UNCHANGED conns

Next ==
    \/ OneAtATime /\ \E username \in UsernameInputs : CreateUser(username)
    \/ OneAtATime /\ \E user_id \in UserIdInputs, name \in NameInputs,
                        description \in DescInputs :
                           CreateTask(user_id, name, description)
    \/ OneAtATime /\ \E user_id \in UserIdInputs : ListTasks(user_id)
    \/ OneAtATime /\ \E task_id \in TaskIdInputs : GetTask(task_id)
    \/ OneAtATime /\ \E task_id \in TaskIdInputs, name \in NameInputs,
                        description \in DescInputs :
                           UpdateTask(task_id, name, description)
    \/ OneAtATime /\ \E task_id \in TaskIdInputs : DeleteTask(task_id)
    \/ OneAtATime /\ \E task_id \in TaskIdInputs, status \in StatusInputs :
                           ChangeTaskStatus(task_id, status)
    \/ Prompt /\ UNCHANGED conns

Spec == Init /\ [][Next]_vars

(***************************************************************************)
(* Two sessions in create_task at once.  A session's call advances one     *)
(* awaited step at a time (connect, each cursor.execute, the commit of     *)
(* get_db); between two of its steps the other session may take steps.     *)
(***************************************************************************)
\* one user exists and owns no task; no call is under way
RaceInit == /\ users   = {[id |-> FirstUserId, username |-> <<"a">>]}
            /\ autoInc = FirstUserId + 1
            /\ tasks   = {}
            /\ issued  = {}
            /\ last    = NoCall
            /\ conns   = [c \in Conns |-> Closed]

\* the call of session c has ended by raising e; get_db closes the connection
\* without committing
Raises(c, e) ==
    conns' = [conns EXCEPT ![c].pc = "done", ![c].error = e.error,
                           ![c].http = e.http]

\* create_task(user_id, name, description) is called:
\* task_id = str(uuid.uuid4()), and get_db opens the connection
Call(c, user_id, name, description) ==
    /\ conns[c] = Closed
    /\ \E task_id \in UUIDTexts \ issued :
         /\ issued' = issued \cup {task_id}
         /\ conns' = [conns EXCEPT ![c] =
                        [Closed EXCEPT !.pc = "select_user",
                                       !.user_id = user_id, !.name = name,
                                       !.description = description,
                                       !.task_id = task_id]]
    /\ UNCHANGED <<users, autoInc, tasks, last>>

\* SELECT username FROM users WHERE id = %s, the first statement of the
\* transaction: from here on it reads the rows committed by now
SelectUser(c) ==
    /\ conns[c].pc = "select_user"
    /\ IF UserMissing(conns[c].user_id)
         THEN Raises(c, NotFoundError)
         ELSE conns' = [conns EXCEPT ![c].pc = "select_task",
                                     ![c].snapshot = tasks]
    /\ UNCHANGED <<users, autoInc, tasks, issued, last>>

\* a UNIQUE (user_id, name) index on tasks, which init_db does not declare
UniqueNamePerUser(row) ==
    \E t \in tasks \cup UNION { conns[c].pending : c \in Conns } :
        t.user_id = row.user_id /\ t.name = row.name

\* "if existing_task", on the rows the transaction of session c reads
DuplicateTaskSeen(c) ==
    \E t \in conns[c].snapshot :
        t.user_id = conns[c].user_id /\ t.name = Strip(conns[c].name)

\* SELECT id FROM tasks WHERE user_id = %s AND name = %s, and the two checks
SelectTask(c) ==
    /\ conns[c].pc = "select_task"
    /\ IF DuplicateTaskSeen(c)
         THEN Raises(c, TaskOperationException("409 Conflict"))
       ELSE IF ~Truthy(Strip(conns[c].name))
         THEN Raises(c, BadRequestError)
       ELSE conns' = [conns EXCEPT ![c].pc = "insert"]
    /\ UNCHANGED <<users, autoInc, tasks, issued, last>>

\* the constraints init_db declares on tasks reject the row: PRIMARY KEY (id)
\* and FOREIGN KEY (user_id) REFERENCES users(id)
ConstraintRejects(row) ==
    \/ \E t \in tasks \cup UNION { conns[c].pending : c \in Conns } :
          t.id = row.id
    \/ ~ \E u \in users : u.id = row.user_id

\* INSERT INTO tasks ...; a rejected INSERT raises, "except Exception" prints
\* the error and create_task returns None
Insert(c) ==
    LET row == NewTaskRow(conns[c].task_id, conns[c].user_id,
                          conns[c].name, conns[c].description)
    IN  /\ conns[c].pc = "insert"
        /\ IF ConstraintRejects(row)
             THEN conns' = [conns EXCEPT ![c].pc = "done"]
             ELSE conns' = [conns EXCEPT ![c].pc = "commit",
                                         ![c].pending = {row}]
        /\ UNCHANGED <<users, autoInc, tasks, issued, last>>

\* create_task returns task_id; get_db commits and closes the connection
Commit(c) ==
    /\ conns[c].pc = "commit"
    /\ tasks' = tasks \cup conns[c].pending
    /\ conns' = [conns EXCEPT ![c].pc = "done", ![c].pending = {},
                              ![c].returned = conns[c].task_id]
    /\ UNCHANGED <<users, autoInc, issued, last>>

RaceNext ==
    \E c \in Conns :
        \/ \E user_id \in UserIdInputs, name \in NameInputs,
              description \in DescInputs :
                 Call(c, user_id, name, description)
        \/ SelectUser(c)
        \/ SelectTask(c)
        \/ Insert(c)
        \/ Commit(c)

RaceSpec == RaceInit /\ [][RaceNext]_vars

(***************************************************************************)
(* Properties.  In a step that serves a call, last' holds the call and its *)
(* outcome, the unprimed tables are those the call found and the primed    *)
(* ones those it left.                                                     *)
(***************************************************************************)
Statements(q) == { q[i] : i \in 1..Len(q) }

\* C1: after any sequence of create_task, update_task, delete_task and
\* change_task_status calls run one at a time, no user owns two tasks whose
\* names are equal after trimming.
C1_NoTwoTasksWithSameTrimmedName ==
    \A t1, t2 \in tasks :
        (t1.user_id = t2.user_id /\ Strip(t1.name) = Strip(t2.name))
            => t1 = t2

\* C2: for an existing user u and a name n that is non-empty after trimming,
\* create_task(u, n, d) fails with TaskOperationException "409 Conflict" and
\* inserts nothing exactly when u already owns a task named trim(n); a task
\* of that name owned by another user does not make it fail.
C2_ConflictExactlyOnOwnDuplicate ==
    [][ ( /\ last'.op = "create_task"
          /\ \E usr \in users : usr.id = last'.user_id
          /\ Strip(last'.name) # <<>> )
        => LET conflict == /\ last'.error = "TaskOperationException"
                           /\ last'.http = "409 Conflict"
               owns == \E t \in tasks : /\ t.user_id = last'.user_id
                                        /\ t.name = Strip(last'.name)
           IN  /\ conflict <=> owns
               /\ conflict => /\ tasks' = tasks
                              /\ "INSERT tasks" \notin Statements(last'.sql)
               /\ ~conflict => /\ last'.error = "none"
                               /\ Cardinality(tasks') = Cardinality(tasks) + 1
      ]_vars

\* C2 witness: create_task with a name that needs trimming has just failed
\* with 409 Conflict for a user who owns that name, while another user owns
\* a task of the same name.
C2_Witness ==
    /\ last.op = "create_task"
    /\ last.name # Strip(last.name)
    /\ last.error = "TaskOperationException"
    /\ last.http = "409 Conflict"
    /\ \E t1, t2 \in tasks : /\ t1.user_id = last.user_id
                             /\ t2.user_id # last.user_id
                             /\ t1.name = Strip(last.name)
                             /\ t2.name = Strip(last.name)

\* C3: a create_user call whose username exactly matches an existing user's
\* fails with UserCreationException carrying the status "409 Conflict" and
\* adds no user; and in every reachable state no two users share a username.
C3_DuplicateUsernameIs409Conflict ==
    /\ [][ ( /\ last'.op = "create_user"
             /\ \E usr \in users : usr.username = last'.username )
           => /\ last'.error = "UserCreationException"
              /\ last'.http = "409 Conflict"
              /\ users' = users
         ]_vars
    /\ [](\A u1, u2 \in users : u1.username = u2.username => u1 = u2)

\* C4: create_user(username) fails with BadRequest and inserts no user
\* whenever username is empty or consists solely of digits.
C4_EmptyOrNumericUsernameRejected ==
    [][ ( /\ last'.op = "create_user"
          /\ \/ last'.username = <<>>
             \/ \A i \in 1..Len(last'.username) :
                   last'.username[i] \in Digits )
        => /\ last'.error = "BadRequestError"
           /\ last'.http = "400 Bad Request"
           /\ users' = users
      ]_vars

\* C5: create_task with a user_id that matches no existing user fails with
\* NotFound, whatever the name and description are, and inserts no task; so
\* every stored task's user_id references an existing user.
C5_UnknownUserNotFound ==
    /\ [][ ( /\ last'.op = "create_task"
             /\ ~ \E usr \in users : usr.id = last'.user_id )
           => /\ last'.error = "NotFoundError"
              /\ last'.http = "404 Not Found"
              /\ tasks' = tasks
              /\ "INSERT tasks" \notin Statements(last'.sql)
         ]_vars
    /\ [](\A t \in tasks : \E usr \in users : usr.id = t.user_id)

\* C5 witness: a create_task with a blank name for an unknown user has just
\* failed with NotFound, in a state that holds users and tasks.
C5_Witness ==
    /\ last.op = "create_task"
    /\ ~ \E usr \in users : usr.id = last.user_id
    /\ Strip(last.name) = <<>>
    /\ last.error = "NotFoundError"
    /\ users # {}
    /\ tasks # {}

\* C6: get_task, update_task, delete_task and change_task_status each reject
\* a task_id that is not valid UUID text with a 400 Bad Request error, before
\* any SELECT, UPDATE or DELETE on the tasks table is issued for that id.
C6_NonUUIDRejectedBeforeAnyStatement ==
    ( /\ last.op \in {"get_task", "update_task", "delete_task",
                      "change_task_status"}
      /\ last.task_id.form = "invalid" )
    => /\ last.http = "400 Bad Request"
       /\ Statements(last.sql) \cap
            {"SELECT tasks", "UPDATE tasks", "DELETE tasks"} = {}

\* C7: in every reachable state each stored task's status is exactly
\* 'Active' or 'Archive', whatever status text change_task_status is given.
C7_StatusIsActiveOrArchive ==
    \A t \in tasks : t.status = "Active" \/ t.status = "Archive"

\* C7 witness: change_task_status with the status 'Done' has just returned
\* on an existing, archived task.
C7_Witness ==
    /\ last.op = "change_task_status"
    /\ last.status \notin {"Active", "Archive"}
    /\ last.error = "none"
    /\ \E t \in tasks : t.id = last.task_id /\ t.status = "Archive"

\* C8: in every reachable state each stored task's name is non-empty after
\* trimming, for any sequence of create_task and update_task calls.
C8_StoredNameNotBlank ==
    \A t \in tasks : Strip(t.name) # <<>>

\* C9: update_task(task_id, name, description) with name and description
\* both empty, on an existing task with a valid UUID, returns without raising
\* and leaves name, description and status of every task unchanged.
C9_EmptyUpdateChangesNothing ==
    [][ ( /\ last'.op = "update_task"
          /\ last'.name = <<>>
          /\ last'.description = <<>>
          /\ \E t \in tasks : t.id = last'.task_id )
        => /\ last'.error = "none"
           /\ tasks' = tasks
      ]_vars

\* C9 witness: update_task with both fields empty has just returned normally
\* on an existing task that has a description.
C9_Witness ==
    /\ last.op = "update_task"
    /\ last.name = <<>>
    /\ last.description = <<>>
    /\ last.error = "none"
    /\ \E t \in tasks : t.id = last.task_id /\ t.description # <<>>

\* C10: for an existing task id, change_task_status(id, 'Archive') makes
\* get_task(id) return status 'Archive' and change_task_status(id, 'Active')
\* makes it return 'Active' again, the task's name, description and user_id
\* staying as they were: each of the two calls leaves exactly the old row
\* with the new status, and get_task returns the stored row and changes
\* nothing.
C10_StatusRoundTrip ==
    [][ /\ ( /\ last'.op = "change_task_status"
             /\ last'.status \in {"Archive", "Active"}
             /\ \E t \in tasks : t.id = last'.task_id )
           => /\ last'.error = "none"
              /\ \A t \in tasks : t.id = last'.task_id =>
                   { r \in tasks' : r.id = last'.task_id } =
                      { [ id |-> t.id, user_id |-> t.user_id,
                          name |-> t.name, description |-> t.description,
                          status |-> last'.status ] }
        /\ ( /\ last'.op = "get_task"
             /\ \E t \in tasks : t.id = last'.task_id )
           => /\ last'.error = "none"
              /\ last'.rows = { t \in tasks : t.id = last'.task_id }
              /\ tasks' = tasks
      ]_vars

\* C10 witness: get_task has just returned the task it was asked for, with
\* status 'Archive'.
C10_Witness ==
    /\ last.op = "get_task"
    /\ last.error = "none"
    /\ \E r \in last.rows : r.id = last.task_id /\ r.status = "Archive"

\* C11: delete_task(id) on an existing task returns normally and removes
\* exactly that row; an id that was issued and has no row never gets a row
\* again (uuid4 does not reissue it), and get_task on an id without a row
\* fails with NotFound, so every later get_task(id) fails with NotFound;
\* delete_task on an id that matches no task fails with NotFound and removes
\* nothing.
C11_DeletedStaysDeleted ==
    /\ [][ /\ ( /\ last'.op = "delete_task"
                /\ \E t \in tasks : t.id = last'.task_id )
              => /\ last'.error = "none"
                 /\ tasks' = { t \in tasks : t.id # last'.task_id }
                 /\ issued' = issued
           /\ ( /\ last'.op = "delete_task"
                /\ ~ \E t \in tasks : t.id = last'.task_id )
              => /\ last'.error = "NotFoundError"
                 /\ last'.http = "404 Not Found"
                 /\ tasks' = tasks
           /\ ( /\ last'.op = "get_task"
                /\ last'.task_id \in issued
                /\ ~ \E t \in tasks : t.id = last'.task_id )
              => /\ last'.error = "NotFoundError"
                 /\ last'.http = "404 Not Found"
           /\ \A id \in issued :
                (~ \E t \in tasks : t.id = id) => (~ \E t \in tasks' : t.id = id)
         ]_vars
    /\ [](\A t \in tasks : t.id \in issued)

\* C11 witness: get_task has just failed with NotFound on the id of a task
\* that was created and deleted, while a task created after it is stored.
C11_Witness ==
    /\ last.op = "get_task"
    /\ last.task_id \in issued
    /\ ~ \E t \in tasks : t.id = last.task_id
    /\ last.error = "NotFoundError"
    /\ tasks # {}

\* C12: when two create_task calls for the same existing user and the same
\* name run at once on separate connections, both can pass the
\* duplicate-name SELECT and both INSERT, so that the user owns two tasks of
\* the same name: a call whose SELECTs found the user and no task of that
\* name, and whose name is not blank, ends by returning its task_id with its
\* row stored, whatever the other connection has inserted in the meantime.
C12_PassedCheckAlwaysInserts ==
    \A c \in Conns :
        ( /\ conns[c].pc = "done"
          /\ \E u \in users : u.id = conns[c].user_id
          /\ Strip(conns[c].name) # <<>>
          /\ ~ \E t \in conns[c].snapshot :
                  /\ t.user_id = conns[c].user_id
                  /\ t.name = Strip(conns[c].name) )
        => /\ conns[c].error = "none"
           /\ conns[c].returned = conns[c].task_id
           /\ \E t \in tasks : /\ t.id = conns[c].task_id
                               /\ t.user_id = conns[c].user_id
                               /\ t.name = Strip(conns[c].name)

\* C12 witness: both calls, made for the same user with the same name, have
\* returned their task ids, and the user owns two tasks of that name.
C12_Witness ==
    /\ \A c \in Conns : /\ conns[c].pc = "done"
                        /\ conns[c].error = "none"
                        /\ conns[c].returned = conns[c].task_id
    /\ conns[1].user_id = conns[2].user_id
    /\ conns[1].name = conns[2].name
    /\ \E t1, t2 \in tasks : /\ t1.id = conns[1].task_id
                             /\ t2.id = conns[2].task_id
                             /\ t1 # t2
                             /\ t1.user_id = t2.user_id
                             /\ t1.name = t2.name

=============================================================================
